---- MODULE Spec2Model ----
(***************************************************************************)
(* Model of main.py: the task table (SQLite table "tasks"), the temporary  *)
(* audio files, the upload handler quran_correct, the background worker    *)
(* process_audio and the read-only endpoints.                              *)
(*                                                                         *)
(* Texts are sequences of one-character strings.  A nullable column holds  *)
(* NULL (the empty tuple) or Some(v) (the one-element tuple <<v>>).        *)
(* Every call that the code wraps in try/except (a database call, the      *)
(* transcription, a file operation) either succeeds or raises.             *)
(***************************************************************************)
EXTENDS Integers, Sequences, FiniteSets

\* ------------------------------------------------------------------ bounds
MaxReq == 2        \* upload requests, and size of the task-id space
MaxTime == 1       \* the clock int(time.time()) ranges over 0..MaxTime
MaxLen == 3        \* longest text of the diff specification

Requests == 1..MaxReq
TaskIds == 1..MaxReq
FileNames == {"rec.wav"}
Alphabet == {"a", "b"}

NULL == <<>>
Some(v) == <<v>>

RECURSIVE TextsOfLen(_)
TextsOfLen(n) ==
  IF n = 0 THEN {<<>>}
  ELSE {Append(s, c) : s \in TextsOfLen(n - 1), c \in Alphabet}

TextsUpTo(n) == UNION {TextsOfLen(k) : k \in 0..n}

\* texts submitted and recognized in the service specification
SampleTexts == {<<>>, <<"a">>}
\* texts of the diff specification
AllTexts == TextsUpTo(MaxLen)

VARIABLES
  tasks,    \* the rows of table "tasks"
  files,    \* the temp files that exist on disk
  now,      \* int(time.time())
  model,    \* TRUE: the Whisper model is loaded; FALSE: model is None
  req,      \* per upload request: the handler's position and locals
  worker,   \* per upload request: the background task it enqueued
  http      \* the response of a read-only endpoint that is being sent

vars == <<tasks, files, now, model, req, worker, http>>

\* ------------------------------------------------------------ difflib.ndiff
Min(x, y) == IF x < y THEN x ELSE y

\* a[i:i+k] == b[j:j+k], 0-based as in Python
SameSlice(a, b, i, j, k) == \A d \in 1..k : a[i + d] = b[j + d]

\* SequenceMatcher.find_longest_match without junk: a longest common block of
\* a[alo:ahi] and b[blo:bhi], of those the one starting earliest in a, of those
\* the one starting earliest in b; (alo, blo, 0) when there is none.
FindLongestMatch(a, b, alo, ahi, blo, bhi) ==
  LET Cands == {c \in (alo..(ahi - 1)) \X (blo..(bhi - 1)) \X (1..Min(ahi - alo, bhi - blo)) :
                  /\ c[1] + c[3] <= ahi
                  /\ c[2] + c[3] <= bhi
                  /\ SameSlice(a, b, c[1], c[2], c[3])}
      Better(c, d) == \/ c[3] > d[3]
                      \/ c[3] = d[3] /\ c[1] < d[1]
                      \/ c[3] = d[3] /\ c[1] = d[1] /\ c[2] <= d[2]
  IN IF Cands = {} THEN <<alo, blo, 0>>
     ELSE CHOOSE c \in Cands : \A d \in Cands : Better(c, d)

\* SequenceMatcher.get_matching_blocks: the longest match, then the matches to
\* its left and to its right, in increasing order.
RECURSIVE MatchingBlocks(_, _, _, _, _, _)
MatchingBlocks(a, b, alo, ahi, blo, bhi) ==
  LET m == FindLongestMatch(a, b, alo, ahi, blo, bhi)
      i == m[1]
      j == m[2]
      k == m[3]
  IN IF k = 0 THEN <<>>
     ELSE (IF alo < i /\ blo < j THEN MatchingBlocks(a, b, alo, i, blo, j) ELSE <<>>)
          \o <<m>>
          \o (IF i + k < ahi /\ j + k < bhi
              THEN MatchingBlocks(a, b, i + k, ahi, j + k, bhi) ELSE <<>>)

\* Differ._dump: one line "<tag> <element>" per element of x[lo:hi]
RECURSIVE Dump(_, _, _, _)
Dump(tag, x, lo, hi) ==
  IF lo >= hi THEN <<>>
  ELSE <<(<<tag, " ", x[lo + 1]>>)>> \o Dump(tag, x, lo + 1, hi)

\* Differ._plain_replace
PlainReplace(a, alo, ahi, b, blo, bhi) ==
  IF bhi - blo < ahi - alo
  THEN Dump("+", b, blo, bhi) \o Dump("-", a, alo, ahi)
  ELSE Dump("-", a, alo, ahi) \o Dump("+", b, blo, bhi)

\* Differ._fancy_replace on one-character elements: two different characters
\* have similarity ratio 0 < 0.75, so the only synch point is an identical pair
\* (the first in b-major order); without one the block is a plain replace.
RECURSIVE FancyReplace(_, _, _, _, _, _)
FancyReplace(a, alo, ahi, b, blo, bhi) ==
  LET Eq == {p \in (alo..(ahi - 1)) \X (blo..(bhi - 1)) : a[p[1] + 1] = b[p[2] + 1]}
      Helper(l1, h1, l2, h2) ==
        IF l1 < h1
        THEN IF l2 < h2 THEN FancyReplace(a, l1, h1, b, l2, h2) ELSE Dump("-", a, l1, h1)
        ELSE IF l2 < h2 THEN Dump("+", b, l2, h2) ELSE <<>>
  IN IF Eq = {} THEN PlainReplace(a, alo, ahi, b, blo, bhi)
     ELSE LET e == CHOOSE p \in Eq : \A q \in Eq :
                     \/ p[2] < q[2]
                     \/ p[2] = q[2] /\ p[1] <= q[1]
          IN Helper(alo, e[1], blo, e[2])
             \o <<(<<" ", " ", a[e[1] + 1]>>)>>
             \o Helper(e[1] + 1, ahi, e[2] + 1, bhi)

\* SequenceMatcher.get_opcodes and Differ.compare: walk the matching blocks
\* (the last one is the sentinel (len(a), len(b), 0)) from cursor (i, j).
RECURSIVE CompareFrom(_, _, _, _, _)
CompareFrom(a, b, blocks, i, j) ==
  IF blocks = <<>> THEN <<>>
  ELSE LET m == Head(blocks)
           ai == m[1]
           bj == m[2]
           size == m[3]
           gap == IF i < ai /\ j < bj THEN FancyReplace(a, i, ai, b, j, bj)
                  ELSE IF i < ai THEN Dump("-", a, i, ai)
                  ELSE IF j < bj THEN Dump("+", b, j, bj)
                  ELSE <<>>
       IN gap \o Dump(" ", a, ai, ai + size)
              \o CompareFrom(a, b, Tail(blocks), ai + size, bj + size)

\* NDiffLines as a diff that lists only the changed characters
NDiffLines_ChangedOnly(a, b) ==
  SelectSeq(CompareFrom(a, b,
                        MatchingBlocks(a, b, 0, Len(a), 0, Len(b))
                          \o <<(<<Len(a), Len(b), 0>>)>>,
                        0, 0),
            LAMBDA line : line[1] # " ")

\* list(difflib.ndiff(a, b)) for two str arguments: one line per character
NDiffLines(a, b) ==
  CompareFrom(a, b,
              MatchingBlocks(a, b, 0, Len(a), 0, Len(b)) \o <<(<<Len(a), Len(b), 0>>)>>,
              0, 0)

\* "\n".join(lines)
RECURSIVE JoinLines(_)
JoinLines(lines) ==
  IF lines = <<>> THEN <<>>
  ELSE IF Len(lines) = 1 THEN lines[1]
  ELSE lines[1] \o <<"\n">> \o JoinLines(Tail(lines))

\* feedback = "\n".join(difflib.ndiff(ayah, user_text))
Feedback(ayah, user_text) == JoinLines(NDiffLines(ayah, user_text))


\* ------------------------------------------------------------ the task table
\* CREATE TABLE tasks (task_id TEXT PRIMARY KEY, status TEXT NOT NULL, ayah,
\* user_text, feedback, error, created_at, completed_at)
Row(id, st, ay, ut, fb, er, ca, co) ==
  [task_id |-> id, status |-> st, ayah |-> ay, user_text |-> ut, feedback |-> fb,
   error |-> er, created_at |-> ca, completed_at |-> co]

\* the columns an UPDATE of the worker can set
SetCols == {"status", "user_text", "feedback", "error", "completed_at"}

\* The uncommitted writes of a connection: per column, <<>> (not written) or
\* <<v>> (SET column = v).
NoTxn == [c \in SetCols |-> <<>>]

\* SetProcessing as an UPDATE that marks the task completed at once
SetProcessing_Completed == [NoTxn EXCEPT !.status = <<"completed">>]

\* UPDATE tasks SET status = 'processing' WHERE task_id = ?
SetProcessing == [NoTxn EXCEPT !.status = <<"processing">>]

\* UPDATE tasks SET status = 'completed', user_text = ?, feedback = ?,
\* completed_at = ? WHERE task_id = ?
SetCompleted(ut, fb, t) ==
  [NoTxn EXCEPT !.status = <<"completed">>, !.user_text = <<Some(ut)>>,
                !.feedback = <<Some(fb)>>, !.completed_at = <<Some(t)>>]

\* UPDATE tasks SET status = 'error', error = ? WHERE task_id = ?
SetError(msg) == [NoTxn EXCEPT !.status = <<"error">>, !.error = <<Some(msg)>>]

\* cursor.execute(UPDATE ...) on a connection whose uncommitted writes are txn
Execute(txn, set) == [c \in SetCols |-> IF set[c] # <<>> THEN set[c] ELSE txn[c]]

\* Written as an UPDATE that also overwrites the reference text
Written_LosesAyah(r, txn) ==
  [r EXCEPT !.ayah = <<>>,
            !.status = IF txn.status # <<>> THEN txn.status[1] ELSE @,
            !.user_text = IF txn.user_text # <<>> THEN txn.user_text[1] ELSE @,
            !.feedback = IF txn.feedback # <<>> THEN txn.feedback[1] ELSE @,
            !.error = IF txn.error # <<>> THEN txn.error[1] ELSE @,
            !.completed_at = IF txn.completed_at # <<>> THEN txn.completed_at[1] ELSE @]

\* the row after the writes of txn
Written(r, txn) ==
  [r EXCEPT !.status = IF txn.status # <<>> THEN txn.status[1] ELSE @,
            !.user_text = IF txn.user_text # <<>> THEN txn.user_text[1] ELSE @,
            !.feedback = IF txn.feedback # <<>> THEN txn.feedback[1] ELSE @,
            !.error = IF txn.error # <<>> THEN txn.error[1] ELSE @,
            !.completed_at = IF txn.completed_at # <<>> THEN txn.completed_at[1] ELSE @]

\* Commit as the commit of UPDATEs without their WHERE clause
Commit_NoWhere(rows, id, txn) == {Written(r, txn) : r \in rows}

\* conn.commit() of UPDATEs ... WHERE task_id = id
Commit(rows, id, txn) ==
  {IF r.task_id = id THEN Written(r, txn) ELSE r : r \in rows}

\* the rows SELECT * FROM tasks WHERE task_id = id returns
RowsOf(id) == {r \in tasks : r.task_id = id}

\* f"temp_{task_id}_{file.filename}": the uuid string has a fixed length, so
\* the path determines the task id and the file name
AudioPath(id, name) == <<id, name>>

\* ---------------------------------------------------------------- processes
\* Field writes of a worker counts the UPDATE transactions it has committed.
IdleReq == [pc |-> "start", task_id |-> 0, ayah |-> <<>>, filename |-> "", code |-> 0]
NoWorker ==
  [pc |-> "none", task_id |-> 0, file_path |-> <<>>, ayah |-> <<>>, conn |-> FALSE,
   txn |-> NoTxn, exc |-> "", user_text |-> <<>>, writes |-> 0]
NoHttp == [op |-> "none", task_id |-> 0, code |-> 0, body |-> <<>>]

Init ==
  /\ tasks = {}
  /\ files = {}
  /\ now = 0
  /\ model \in BOOLEAN
  /\ req = [r \in Requests |-> IdleReq]
  /\ worker = [r \in Requests |-> NoWorker]
  /\ http = NoHttp

\* ------------------------------------------------- quran_correct (upload)
\* InsertRow as an INSERT that leaves column ayah out
InsertRow_NoAyah(rows, id, ay, t) ==
  rows \cup {Row(id, "pending", <<>>, NULL, NULL, NULL, t, NULL)}

\* the INSERT of lines 167-172 (the task id is uuid4())
InsertRow(rows, id, ay, t) ==
  rows \cup {Row(id, "pending", ay, NULL, NULL, NULL, t, NULL)}

\* PrimaryKeyFree as a table without a primary key
PrimaryKeyFree_NoKey(rows, id) == TRUE

\* task_id TEXT PRIMARY KEY: the INSERT goes through only for an id without a row
PrimaryKeyFree(rows, id) == \A x \in rows : x.task_id # id

\* lines 160-172: task id, INSERT, commit; an exception is answered with 500
UploadInsert(r) ==
  /\ req[r].pc = "start"
  /\ \E id \in TaskIds, ay \in SampleTexts, name \in FileNames, t \in now..MaxTime :
       /\ now' = t
       /\ \/ /\ PrimaryKeyFree(tasks, id)
             /\ tasks' = InsertRow(tasks, id, ay, t)
             /\ req' = [req EXCEPT ![r] = [pc |-> "inserted", task_id |-> id, ayah |-> ay,
                                           filename |-> name, code |-> 0]]
          \/ \* sqlite3.IntegrityError (the id has a row) or another database error
             /\ tasks' = tasks
             /\ req' = [req EXCEPT ![r] = [IdleReq EXCEPT !.pc = "done", !.code = 500]]
  /\ http' = NoHttp
  /\ UNCHANGED <<files, model, worker>>

\* lines 174-189: write the temp file, add the background task, answer 200;
\* open(), file.read() or f.write() raising is answered with 500
UploadSave(r) ==
  /\ req[r].pc = "inserted"
  /\ LET path == AudioPath(req[r].task_id, req[r].filename)
     IN \/ /\ files' = files \cup {path}
           /\ worker' = [worker EXCEPT ![r] =
                           [NoWorker EXCEPT !.pc = "queued", !.task_id = req[r].task_id,
                                            !.file_path = path, !.ayah = req[r].ayah]]
           /\ req' = [req EXCEPT ![r].pc = "done", ![r].code = 200]
        \/ \* open() raises: no file
           /\ files' = files
           /\ worker' = worker
           /\ req' = [req EXCEPT ![r].pc = "done", ![r].code = 500]
        \/ \* file.read() or f.write() raises: the file was created
           /\ files' = files \cup {path}
           /\ worker' = worker
           /\ req' = [req EXCEPT ![r].pc = "done", ![r].code = 500]
  /\ http' = NoHttp
  /\ UNCHANGED <<tasks, now, model>>

\* ------------------------------------------------ process_audio (worker)
\* Raise as a handler that transcribes again after a failed transcription
Raise_Retry(w, conn, txn, msg) ==
  worker' = [worker EXCEPT ![w].pc = IF msg = "transcribe" THEN "transcribe" ELSE "except",
                           ![w].conn = conn, ![w].txn = txn,
                           ![w].exc = msg, ![w].user_text = <<>>]

\* lines 127-128: an exception of the try block enters the except handler
Raise(w, conn, txn, msg) ==
  worker' = [worker EXCEPT ![w].pc = "except", ![w].conn = conn, ![w].txn = txn,
                           ![w].exc = msg, ![w].user_text = <<>>]

\* lines 85-94: connect, UPDATE status = processing, commit, close
MarkProcessing(w) ==
  /\ worker[w].pc = "queued"
  /\ \/ /\ tasks' = Commit(tasks, worker[w].task_id, SetProcessing)
        /\ worker' = [worker EXCEPT ![w].pc = "transcribe", ![w].writes = @ + 1]
     \/ /\ Raise(w, FALSE, NoTxn, "database")
        /\ tasks' = tasks
     \/ /\ Raise(w, TRUE, NoTxn, "database")
        /\ tasks' = tasks
     \/ /\ Raise(w, TRUE, SetProcessing, "database")
        /\ tasks' = tasks
  /\ http' = NoHttp
  /\ UNCHANGED <<files, now, model, req>>

\* lines 96-102: model.transcribe(file_path, ...); model is None raises
Transcribe(w, texts) ==
  /\ worker[w].pc = "transcribe"
  /\ \/ /\ model
        /\ \E txt \in texts :
             worker' = [worker EXCEPT ![w].pc = "cleanup", ![w].user_text = txt]
     \/ /\ model
        /\ Raise(w, FALSE, NoTxn, "transcribe")
     \/ /\ ~model
        /\ Raise(w, FALSE, NoTxn, "NoneType")
  /\ http' = NoHttp
  /\ UNCHANGED <<tasks, files, now, model, req>>

\* lines 104-107: if os.path.exists(file_path): os.remove(file_path)
RemoveFile(w) ==
  /\ worker[w].pc = "cleanup"
  /\ \/ /\ files' = files \ {worker[w].file_path}
        /\ worker' = [worker EXCEPT ![w].pc = "complete"]
     \/ \* os.remove raises
        /\ worker[w].file_path \in files
        /\ files' = files
        /\ Raise(w, FALSE, NoTxn, "remove")
  /\ http' = NoHttp
  /\ UNCHANGED <<tasks, now, model, req>>

\* lines 109-125: the diff, connect, UPDATE status = completed, commit
Complete(w) ==
  /\ worker[w].pc = "complete"
  /\ \E t \in now..MaxTime :
       LET set == SetCompleted(worker[w].user_text,
                               Feedback(worker[w].ayah, worker[w].user_text), t)
       IN /\ now' = t
          /\ \/ /\ tasks' = Commit(tasks, worker[w].task_id, set)
                /\ worker' = [worker EXCEPT ![w].pc = "finally", ![w].conn = TRUE,
                                            ![w].user_text = <<>>,
                                            ![w].writes = @ + 1]
             \/ /\ Raise(w, FALSE, NoTxn, "database")
                /\ tasks' = tasks
             \/ /\ Raise(w, TRUE, NoTxn, "database")
                /\ tasks' = tasks
             \/ /\ Raise(w, TRUE, set, "database")
                /\ tasks' = tasks
  /\ http' = NoHttp
  /\ UNCHANGED <<files, model, req>>

\* lines 127-140: except Exception as e: connect if there is no connection,
\* UPDATE status = error, error = str(e), commit; an exception here is logged
Except(w) ==
  /\ worker[w].pc = "except"
  /\ LET txn == Execute(worker[w].txn, SetError(worker[w].exc))
     IN \/ /\ tasks' = Commit(tasks, worker[w].task_id, txn)
           /\ worker' = [worker EXCEPT ![w].pc = "finally", ![w].conn = TRUE,
                                       ![w].txn = NoTxn, ![w].writes = @ + 1]
        \/ \* sqlite3.connect raises
           /\ ~worker[w].conn
           /\ tasks' = tasks
           /\ worker' = [worker EXCEPT ![w].pc = "finally"]
        \/ \* cursor.execute raises
           /\ tasks' = tasks
           /\ worker' = [worker EXCEPT ![w].pc = "finally", ![w].conn = TRUE]
        \/ \* conn.commit raises
           /\ tasks' = tasks
           /\ worker' = [worker EXCEPT ![w].pc = "finally", ![w].conn = TRUE,
                                       ![w].txn = txn]
  /\ http' = NoHttp
  /\ UNCHANGED <<files, now, model, req>>

\* lines 141-150: close the connection (its uncommitted writes are lost) and
\* remove the file if it exists; an exception of os.remove is passed over
Finally(w) ==
  /\ worker[w].pc = "finally"
  /\ worker' = [worker EXCEPT ![w].pc = "done", ![w].conn = FALSE, ![w].txn = NoTxn]
  /\ \/ /\ worker[w].file_path \notin files
        /\ files' = files
     \/ /\ worker[w].file_path \in files
        /\ files' = files \ {worker[w].file_path}
     \/ /\ worker[w].file_path \in files
        /\ files' = files
  /\ http' = NoHttp
  /\ UNCHANGED <<tasks, now, model, req>>

\* --------------------------------------------------- read-only endpoints
\* GetTaskStatus as a handler without the branch for a missing row
GetTaskStatus_NoMiss(id) ==
  /\ \/ /\ RowsOf(id) = {}
        /\ http' = [op |-> "task", task_id |-> id, code |-> 200, body |-> <<>>]
     \/ /\ RowsOf(id) # {}
        /\ \E task \in RowsOf(id) :
             http' = [op |-> "task", task_id |-> id, code |-> 200, body |-> <<task>>]
     \/ http' = [op |-> "task", task_id |-> id, code |-> 500, body |-> <<>>]
  /\ UNCHANGED <<tasks, files, now, model, req, worker>>

\* GetTaskStatus as a handler whose SELECT leaves column error out
GetTaskStatus_NoError(id) ==
  /\ \/ /\ RowsOf(id) = {}
        /\ http' = [op |-> "task", task_id |-> id, code |-> 404, body |-> <<>>]
     \/ /\ RowsOf(id) # {}
        /\ \E task \in RowsOf(id) :
             http' = [op |-> "task", task_id |-> id, code |-> 200,
                      body |-> <<[task EXCEPT !.error = NULL]>>]
     \/ http' = [op |-> "task", task_id |-> id, code |-> 500, body |-> <<>>]
  /\ UNCHANGED <<tasks, files, now, model, req, worker>>

\* lines 198-222: GET /task/{task_id}
GetTaskStatus(id) ==
  /\ \/ /\ RowsOf(id) = {}
        /\ http' = [op |-> "task", task_id |-> id, code |-> 404, body |-> <<>>]
     \/ /\ RowsOf(id) # {}
        /\ \E task \in RowsOf(id) :
             http' = [op |-> "task", task_id |-> id, code |-> 200, body |-> <<task>>]
     \/ \* the SELECT raises
        http' = [op |-> "task", task_id |-> id, code |-> 500, body |-> <<>>]
  /\ UNCHANGED <<tasks, files, now, model, req, worker>>

\* every ordering of the elements of the finite set S
RECURSIVE Orderings(_)
Orderings(S) ==
  IF S = {} THEN {<<>>}
  ELSE UNION {{<<x>> \o s : s \in Orderings(S \ {x})} : x \in S}

\* SortedDesc as ORDER BY created_at ASC
SortedDesc_Asc(s) == \A i \in 1..(Len(s) - 1) : s[i].created_at <= s[i + 1].created_at

\* ORDER BY created_at DESC: rows of equal created_at come in any order
SortedDesc(s) == \A i \in 1..(Len(s) - 1) : s[i].created_at >= s[i + 1].created_at

\* LIMIT n: a negative n is no limit (SQLite)
Limit(s, n) == IF n < 0 \/ n >= Len(s) THEN s ELSE SubSeq(s, 1, n)

\* SELECT task_id, status, created_at
ListColumns(r) == [task_id |-> r.task_id, status |-> r.status, created_at |-> r.created_at]

\* the values of query parameter limit (its default is 10)
Limits == (0 - 1)..MaxReq

\* lines 233-248: GET /tasks (one response is sent at a time)
ListTasks(limit) ==
  /\ http = NoHttp
  /\ \/ \E s \in Orderings(tasks) :
          /\ SortedDesc(s)
          /\ http' = [op |-> "tasks", task_id |-> limit, code |-> 200,
                      body |-> Limit([i \in 1..Len(s) |-> ListColumns(s[i])], limit)]
     \/ \* the SELECT raises
        http' = [op |-> "tasks", task_id |-> limit, code |-> 500, body |-> <<>>]
  /\ UNCHANGED <<tasks, files, now, model, req, worker>>

\* lines 224-231: GET /health; the body is model_loaded
HealthCheck ==
  /\ http = NoHttp
  /\ http' = [op |-> "health", task_id |-> 0, code |-> 200, body |-> <<model>>]
  /\ UNCHANGED <<tasks, files, now, model, req, worker>>

\* a step of an upload request or of a background worker
Service ==
  \/ \E r \in Requests : UploadInsert(r)
  \/ \E r \in Requests : UploadSave(r)
  \/ \E w \in Requests : MarkProcessing(w)
  \/ \E w \in Requests : Transcribe(w, SampleTexts)
  \/ \E w \in Requests : RemoveFile(w)
  \/ \E w \in Requests : Complete(w)
  \/ \E w \in Requests : Except(w)
  \/ \E w \in Requests : Finally(w)

\* uploads, workers and status queries, interleaved in any order
Next ==
  \/ Service
  \/ \E id \in TaskIds : GetTaskStatus(id)

Spec == Init /\ [][Next]_vars

\* uploads, workers and every read-only endpoint
AdminNext ==
  \/ Service
  \/ \E id \in TaskIds : GetTaskStatus(id)
  \/ \E limit \in Limits : ListTasks(limit)
  \/ HealthCheck

AdminSpec == Init /\ [][AdminNext]_vars

\* ------------------------------------------------------ the diff of one task
\* One accepted upload of any reference text, its worker not yet started; the
\* worker then runs with any recognized text.
DiffInit ==
  /\ \E ay \in AllTexts :
       /\ tasks = {Row(1, "pending", ay, NULL, NULL, NULL, 0, NULL)}
       /\ req = [r \in Requests |->
                  IF r = 1 THEN [pc |-> "done", task_id |-> 1, ayah |-> ay,
                                 filename |-> "rec.wav", code |-> 200]
                  ELSE [IdleReq EXCEPT !.pc = "done", !.code = 500]]
       /\ worker = [r \in Requests |->
                     IF r = 1 THEN [NoWorker EXCEPT !.pc = "queued", !.task_id = 1,
                                                    !.file_path = AudioPath(1, "rec.wav"),
                                                    !.ayah = ay]
                     ELSE NoWorker]
  /\ files = {AudioPath(1, "rec.wav")}
  /\ now = 0
  /\ model \in BOOLEAN
  /\ http = NoHttp

DiffNext ==
  \/ \E w \in Requests : MarkProcessing(w)
  \/ \E w \in Requests : Transcribe(w, AllTexts)
  \/ \E w \in Requests : RemoveFile(w)
  \/ \E w \in Requests : Complete(w)
  \/ \E w \in Requests : Except(w)
  \/ \E w \in Requests : Finally(w)

DiffSpec == DiffInit /\ [][DiffNext]_vars

\* =================================================================== claims
Terminal == {"completed", "error"}

\* the background tasks that were enqueued
Enqueued == {w \in Requests : worker[w].pc # "none"}

\* the upload requests that were answered {task_id, status: pending}
Accepted == {r \in Requests : req[r].pc = "done" /\ req[r].code = 200}

\* this step is a step of the background task w
WorkerStep(w) == worker[w].pc # "none" /\ worker'[w] # worker[w]

\* this step is a step of the upload request r
UploadStep(r) == req'[r] # req[r]

\* C1 (as claimed): the task of every accepted upload ends completed or error.
\* The worker is the only writer of the row, so the status a finished worker
\* leaves is the status the task keeps for ever: it must be completed or error.
C1_EndsCompletedOrError ==
  \A w \in Enqueued :
    worker[w].pc = "done" =>
      \A x \in RowsOf(worker[w].task_id) : x.status \in Terminal

\* C2 (as claimed): a task whose status is completed or error has no temp file.
C2_NoFileWhenTerminal ==
  \A x \in tasks :
    x.status \in Terminal =>
      \A name \in FileNames : AudioPath(x.task_id, name) \notin files

\* C3 (as claimed): the status of a row changes only pending -> processing,
\* processing -> completed, processing -> error.
C3_OnlyThroughProcessing ==
  [][\A x \in tasks : \A y \in tasks' :
       (x.task_id = y.task_id /\ x.status # y.status) =>
         <<x.status, y.status>> \in {<<"pending", "processing">>,
                                     <<"processing", "completed">>,
                                     <<"processing", "error">>}]_vars

\* C3 (amended): the status of a row changes only pending -> processing,
\* pending -> error (marking processing raised), processing -> completed,
\* processing -> error; so completed is reached only from processing, and a
\* completed or error row never changes status again.
C3_StatusTransitions ==
  [][\A x \in tasks : \A y \in tasks' :
       (x.task_id = y.task_id /\ x.status # y.status) =>
         <<x.status, y.status>> \in {<<"pending", "processing">>,
                                     <<"pending", "error">>,
                                     <<"processing", "completed">>,
                                     <<"processing", "error">>}]_vars

\* C3 witness: a task went pending -> error without being processing while
\* another one completed
C3_Witness ==
  \E w1, w2 \in Enqueued :
    /\ worker[w1].pc = "done" /\ worker[w1].exc = ""
    /\ \E x \in RowsOf(worker[w1].task_id) : x.status = "completed"
    /\ worker[w2].pc = "finally" /\ worker[w2].exc = "database"
    /\ \E x \in RowsOf(worker[w2].task_id) : x.status = "error"

\* C4 (as claimed): when a step of the worker raised, the row ends with status
\* error and the exception's message in column error.
C4_FailureRecorded ==
  \A w \in Enqueued :
    (worker[w].pc = "done" /\ worker[w].exc # "") =>
      \A x \in RowsOf(worker[w].task_id) :
        x.status = "error" /\ x.error = Some(worker[w].exc)

\* C5 (as claimed): when the worker has finished, on whichever path, its temp
\* file does not exist.
C5_FileGoneWhenFinished ==
  \A w \in Enqueued : worker[w].pc = "done" => worker[w].file_path \notin files

\* C6 (as claimed): a status query for an id without a row answers 404.
C6_UnknownIdIs404 ==
  (http.op = "task" /\ RowsOf(http.task_id) = {}) => http.code = 404

\* C6 (amended): a status query for an id without a row answers 404, or 500
\* when the lookup itself raised, in both cases without row data; and a status
\* query changes no row, no file, no upload and no worker.
C6_UnknownIdIs404Or500 ==
  /\ [](http.op = "task" /\ RowsOf(http.task_id) = {} =>
          http.code \in {404, 500} /\ http.body = <<>>)
  /\ [][http'.op = "task" =>
          tasks' = tasks /\ files' = files /\ req' = req /\ worker' = worker]_vars

\* C6 witness: a query for an unknown id was answered 404 while another task
\* has a row and a worker under way
C6_Witness ==
  /\ http.op = "task" /\ http.code = 404
  /\ RowsOf(http.task_id) = {}
  /\ \E w \in Enqueued : worker[w].pc = "transcribe"

\* C7 (as claimed): the feedback of a completed task is empty iff the recognized
\* text equals the reference text.
C7_EmptyIffEqual ==
  \A x \in tasks :
    x.status = "completed" =>
      (x.feedback = Some(<<>>) <=> x.user_text = Some(x.ayah))

\* the line of feedback fb that starts at position i is an unchanged line
UnchangedLines(fb) == \A i \in 1..Len(fb) : i % 4 = 1 => fb[i] = " "

\* C7 (amended): the feedback of a completed task is empty iff the reference
\* text and the recognized text are both empty; the recognized text equals the
\* reference text iff every line of the feedback is an unchanged line (two
\* blanks and the character), one line per character.
C7_EmptyIffBothEmpty ==
  \A x \in tasks :
    x.status = "completed" =>
      /\ x.feedback = Some(<<>>) <=> (x.ayah = <<>> /\ x.user_text = Some(<<>>))
      /\ x.user_text = Some(x.ayah) <=> UnchangedLines(x.feedback[1])

\* C7 witness: a completed task whose recognized text equals its non-empty
\* reference text
C7_Witness ==
  \E x \in tasks :
    /\ x.status = "completed"
    /\ Len(x.ayah) = 2
    /\ x.user_text = Some(x.ayah)
    /\ x.feedback # Some(<<>>)

\* C8: when the upload handler answers {task_id, status: pending}, the table
\* has a pending row of that id with the submitted ayah, the temp file exists,
\* exactly one background task is enqueued for the id, with the file and the
\* ayah as arguments, and it has not started.
C8_AcceptedUpload ==
  [][\A r \in Requests :
       (UploadStep(r) /\ req'[r].pc = "done" /\ req'[r].code = 200) =>
         LET id == req'[r].task_id
             path == AudioPath(id, req'[r].filename)
         IN /\ \E x \in tasks' :
                 x.task_id = id /\ x.status = "pending" /\ x.ayah = req'[r].ayah
            /\ \A x \in tasks' : x.task_id = id => x.status = "pending"
            /\ path \in files'
            /\ {w \in Requests : worker'[w].pc # "none" /\ worker'[w].task_id = id} = {r}
            /\ worker'[r].pc = "queued"
            /\ worker'[r].file_path = path
            /\ worker'[r].ayah = req'[r].ayah]_vars

\* C8 witness: an upload was accepted, its worker has not started, and the
\* worker of another task is running
C8_Witness ==
  \E r1, r2 \in Accepted :
    /\ worker[r1].pc = "queued"
    /\ req[r1].ayah = <<"a">>
    /\ worker[r2].pc = "transcribe"

\* C9: every task id an upload returned has exactly one row, no two uploads
\* returned the same id, no two rows share an id, and a step of an upload
\* leaves every existing row as it is.
C9_OneRowPerTaskId ==
  /\ [](/\ \A r \in Accepted : Cardinality(RowsOf(req[r].task_id)) = 1
        /\ \A r1, r2 \in Accepted : r1 # r2 => req[r1].task_id # req[r2].task_id
        /\ \A x, y \in tasks : x.task_id = y.task_id => x = y)
  /\ [][\A r \in Requests : UploadStep(r) => tasks \subseteq tasks']_vars

\* C9 witness: two uploads were accepted and the first one's task is finished
C9_Witness ==
  /\ Accepted = Requests
  /\ Cardinality(tasks) = MaxReq
  /\ \E x \in tasks : x.status = "completed"

\* C10: a step of the worker of a task leaves the row of every other task and
\* every file but its own as they are, adds and removes no row, and no two
\* background tasks have the same task id or the same temp file.
C10_WorkerIsolation ==
  /\ [][\A w \in Requests :
          WorkerStep(w) =>
            /\ \A x \in tasks : x.task_id # worker[w].task_id => x \in tasks'
            /\ {x.task_id : x \in tasks'} = {x.task_id : x \in tasks}
            /\ Cardinality(tasks') = Cardinality(tasks)
            /\ files' \ {worker[w].file_path} = files \ {worker[w].file_path}]_vars
  /\ [](\A w1, w2 \in Enqueued :
          w1 # w2 => /\ worker[w1].task_id # worker[w2].task_id
                     /\ worker[w1].file_path # worker[w2].file_path)

\* C10 witness: one worker finished with an error while the other task is
\* still pending with its file on disk
C10_Witness ==
  \E w1, w2 \in Enqueued :
    /\ worker[w1].pc = "done"
    /\ \E x \in RowsOf(worker[w1].task_id) : x.status = "error"
    /\ worker[w2].pc = "queued"
    /\ worker[w2].file_path \in files
    /\ \E x \in RowsOf(worker[w2].task_id) : x.status = "pending"


\* C11 (as claimed): the worker writes the row of a task exactly once between
\* its creation and its terminal state.
C11_WrittenOnce ==
  \A w \in Enqueued :
    \A x \in RowsOf(worker[w].task_id) :
      x.status \in Terminal => worker[w].writes = 1

\* C11 (amended): the worker writes the row at most twice: a pending row has
\* not been written, a processing row once, a completed row exactly twice
\* (processing, then completed), an error row once (marking processing raised)
\* or twice; a finished worker wrote at most twice.
C11_WrittenAtMostTwice ==
  \A w \in Enqueued :
    /\ worker[w].writes <= 2
    /\ \A x \in RowsOf(worker[w].task_id) :
         /\ x.status = "pending" => worker[w].writes = 0
         /\ x.status = "processing" => worker[w].writes = 1
         /\ x.status = "completed" => worker[w].writes = 2
         /\ x.status = "error" => worker[w].writes \in {1, 2}

\* C11 witness: one finished task is completed after two writes, another one
\* is in error after one write
C11_Witness ==
  \E w1, w2 \in Enqueued :
    /\ worker[w1].pc = "done" /\ worker[w1].writes = 2
    /\ \E x \in RowsOf(worker[w1].task_id) : x.status = "completed"
    /\ worker[w2].pc = "done" /\ worker[w2].writes = 1
    /\ \E x \in RowsOf(worker[w2].task_id) : x.status = "error"

\* C12: no step deletes a row, and no step changes the ayah or the created_at
\* of a row: every row of the table is in the table after the step, with the
\* same reference text and creation time.
C12_RowsKept ==
  [][\A x \in tasks :
       \E y \in tasks' :
         y.task_id = x.task_id /\ y.ayah = x.ayah /\ y.created_at = x.created_at]_vars

\* C12 witness: the task list is answered while one task with a non-empty
\* reference text, created at time 1, is completed and another one is in error
C12_Witness ==
  /\ http.op = "tasks" /\ http.code = 200
  /\ \E x, y \in tasks :
       /\ x.status = "completed" /\ x.ayah = <<"a">> /\ x.created_at = 1
       /\ y.status = "error"

\* C13: the worker does not retry: a step of the worker at the transcription
\* goes on to the file removal or to the except handler, a worker past the
\* transcription never comes back to it, no task has two workers, and a row in
\* status error stays in status error.
C13_NoRetry ==
  /\ [][\A w \in Requests :
          /\ (worker[w].pc = "transcribe" /\ WorkerStep(w)) =>
               worker'[w].pc \in {"cleanup", "except"}
          /\ worker[w].pc \in {"cleanup", "complete", "except", "finally", "done"} =>
               worker'[w].pc \notin {"none", "queued", "transcribe"}
          /\ \A x \in tasks : \A y \in tasks' :
               (x.task_id = y.task_id /\ x.status = "error") => y.status = "error"]_vars
  /\ [](\A w1, w2 \in Enqueued : w1 # w2 => worker[w1].task_id # worker[w2].task_id)

\* C13 witness: a worker whose transcription raised has finished and its task
\* is in status error
C13_Witness ==
  \E w \in Enqueued :
    /\ worker[w].pc = "done" /\ worker[w].exc = "transcribe"
    /\ \E x \in RowsOf(worker[w].task_id) : x.status = "error"


\* C14 (as claimed): a status query for an id that has a row answers with
\* every column of the row as stored.
C14_ReturnsRow ==
  (http.op = "task" /\ RowsOf(http.task_id) # {}) =>
    (http.code = 200 /\ \E x \in RowsOf(http.task_id) : http.body = <<x>>)

\* C14 (amended): a status query for an id that has a row answers 200 with
\* every column of the row as stored, or 500 without row data when the lookup
\* itself raised; the query changes no row and no file.
C14_ReturnsRowOr500 ==
  /\ []((http.op = "task" /\ RowsOf(http.task_id) # {}) =>
          \/ http.code = 200 /\ \E x \in RowsOf(http.task_id) : http.body = <<x>>
          \/ http.code = 500 /\ http.body = <<>>)
  /\ [][(http'.op = "task" /\ \E x \in tasks : x.task_id = http'.task_id) =>
          tasks' = tasks /\ files' = files]_vars

\* C14 witness: the query of a task in status error is answered with its row
\* while the worker of another task is running
C14_Witness ==
  /\ http.op = "task" /\ http.code = 200
  /\ http.body[1].status = "error" /\ http.body[1].error = Some("database")
  /\ \E w \in Enqueued : worker[w].pc = "transcribe"

\* C15 (as claimed): every pending row has a background task that is enqueued
\* and has not started.  A row whose upload handler is still between the INSERT
\* and the file write is left out, so that only a handler that has answered
\* can refute the statement.
C15_PendingHasWorker ==
  \A x \in tasks :
    x.status = "pending" =>
      \/ \E w \in Enqueued : worker[w].task_id = x.task_id /\ worker[w].pc = "queued"
      \/ \E r \in Requests : req[r].pc = "inserted" /\ req[r].task_id = x.task_id

\* C16 (as claimed): the nullable columns of a row agree with its status.
C16_NullableFieldsAgree ==
  \A x \in tasks :
    /\ x.status \in {"pending", "processing"} =>
         (x.user_text = NULL /\ x.feedback = NULL /\ x.error = NULL
            /\ x.completed_at = NULL)
    /\ x.status = "completed" =>
         (x.user_text # NULL /\ x.feedback # NULL /\ x.completed_at # NULL
            /\ x.error = NULL)
    /\ x.status = "error" =>
         (x.error # NULL /\ x.user_text = NULL /\ x.feedback = NULL
            /\ x.completed_at = NULL)

\* C17 (as claimed): when the model is None, the task of every finished worker
\* is in status error, its temp file is removed, and no task is completed.
C17_NoModelEndsInError ==
  ~model =>
    /\ \A x \in tasks : x.status # "completed"
    /\ \A w \in Enqueued :
         worker[w].pc = "done" =>
           /\ worker[w].file_path \notin files
           /\ \A x \in RowsOf(worker[w].task_id) : x.status = "error"

\* the response body lists min(limit, number of rows) different rows by task
\* id, status and created_at, newest first, and no row left out is newer than
\* a listed one
ListsNewest(body, limit) ==
  /\ Len(body) = Min(limit, Cardinality(tasks))
  /\ \A i \in 1..Len(body) :
       \E x \in tasks : /\ body[i].task_id = x.task_id
                        /\ body[i].status = x.status
                        /\ body[i].created_at = x.created_at
  /\ \A i, j \in 1..Len(body) : i # j => body[i].task_id # body[j].task_id
  /\ \A i, j \in 1..Len(body) : i < j => body[i].created_at >= body[j].created_at
  /\ \A x \in tasks :
       (\A i \in 1..Len(body) : body[i].task_id # x.task_id) =>
         \A i \in 1..Len(body) : body[i].created_at >= x.created_at

\* C18 (as claimed): for a limit >= 0 the task list answers with the
\* min(limit, number of rows) newest rows, newest first.
C18_ListsNewest ==
  (http.op = "tasks" /\ http.task_id >= 0) =>
    (http.code = 200 /\ ListsNewest(http.body, http.task_id))

\* C18 (amended): for a limit >= 0 the task list answers 200 with the
\* min(limit, number of rows) newest rows, newest first, or 500 without rows
\* when the query itself raised; the call leaves the table unchanged.
C18_ListsNewestOr500 ==
  /\ []((http.op = "tasks" /\ http.task_id >= 0) =>
          \/ http.code = 200 /\ ListsNewest(http.body, http.task_id)
          \/ http.code = 500 /\ http.body = <<>>)
  /\ [][http'.op = "tasks" => tasks' = tasks /\ files' = files]_vars

\* C18 witness: with two rows of different created_at, limit 1 lists the newer
C18_Witness ==
  /\ http.op = "tasks" /\ http.code = 200 /\ http.task_id = 1
  /\ Len(http.body) = 1
  /\ \E x \in tasks : x.created_at < http.body[1].created_at

====
